---- MODULE Spec2Model ----
(***************************************************************************)
(* Model of server.py: PWAHandler, a SimpleHTTPRequestHandler that serves  *)
(* the working directory under the URL prefix /forked/.                    *)
(*                                                                         *)
(* A request path is a sequence of one-character strings, so that          *)
(* startswith, endswith and the slice [7:] are computed as the code        *)
(* computes them.  A response is the sequence of events the handler        *)
(* writes: the status line, the headers in order, the end of the headers   *)
(* and the body.  Requests are well-formed HTTP/1.x request lines without  *)
(* conditional headers (If-Modified-Since); an HTTP/0.9 request has no     *)
(* status line or headers at all and is outside the model.                 *)
(***************************************************************************)
EXTENDS Integers, Sequences, FiniteSets, TLC

(***************************************************************************)
(* Bounds.                                                                 *)
(***************************************************************************)
\* tokens a client appends to the prefix of its request path
MaxTok == 3
\* tokens of a request path on a reused handler (SpecKeepAlive)
MaxTokKA == 1

(***************************************************************************)
(* Strings as sequences of characters.                                     *)
(***************************************************************************)
RECURSIVE Str(_)
Str(s) == IF s = <<>> THEN "" ELSE Head(s) \o Str(Tail(s))

\* str.startswith(prefix)
startswith(s, p) == Len(s) >= Len(p) /\ SubSeq(s, 1, Len(p)) = p

\* str.endswith(suffix)
endswith(s, p) == Len(s) >= Len(p) /\ SubSeq(s, Len(s) - Len(p) + 1, Len(s)) = p

\* s[n:]
SliceFrom(s, n) == SubSeq(s, n + 1, Len(s))

\* index of the first character of s that is in the set cs, 0 if none
RECURSIVE FindFrom(_, _, _)
FindFrom(s, cs, i) ==
    IF i > Len(s) THEN 0
    ELSE IF s[i] \in cs THEN i
    ELSE FindFrom(s, cs, i + 1)

\* s.split(c, 1)[0]
SplitHead(s, c) ==
    LET i == FindFrom(s, {c}, 1)
    IN IF i = 0 THEN s ELSE SubSeq(s, 1, i - 1)

\* s.split('/'): the components between slashes, empty ones included
RECURSIVE SplitSlash(_)
SplitSlash(s) ==
    LET i == FindFrom(s, {"/"}, 1)
    IN IF i = 0 THEN <<s>>
       ELSE <<SubSeq(s, 1, i - 1)>> \o SplitSlash(SliceFrom(s, i))

(***************************************************************************)
(* Literals of server.py.                                                  *)
(***************************************************************************)
ROOT == <<"/">>
EMPTY == <<>>
FORKED == <<"/", "f", "o", "r", "k", "e", "d">>
FORKED_SLASH == <<"/", "f", "o", "r", "k", "e", "d", "/">>
PrefixLen == 7
JS == <<".", "j", "s">>
HTML == <<".", "h", "t", "m", "l">>
CSS == <<".", "c", "s", "s">>
NoCacheSuffixes == {JS, HTML, CSS}
HTM == <<".", "h", "t", "m">>
INDEX_HTML == <<"i", "n", "d", "e", "x", ".", "h", "t", "m", "l">>
INDEX_HTM == <<"i", "n", "d", "e", "x", ".", "h", "t", "m">>
RedirectTarget == FORKED_SLASH
OnlyForkedMsg == "Only /forked/ path is served"
StrictCache == "no-store, no-cache, must-revalidate, max-age=0"
WeakCache == "no-cache"

(***************************************************************************)
(* The served directory tree: a function from the list of names leading    *)
(* to a node to the node.  <<>> is the served root.                        *)
(***************************************************************************)
Dir == [dir |-> TRUE, bytes |-> ""]
File(b) == [dir |-> FALSE, bytes |-> b]

Tree(nodes) == [w \in {n[1] : n \in nodes} |-> (CHOOSE n \in nodes : n[1] = w)[2]]

CommonNodes ==
    { <<(<<>>), Dir>>,
      <<(<<"app.js">>), File("root/app.js")>>,
      <<(<<"s.css">>), File("root/s.css")>>,
      <<(<<"d">>), Dir>>,
      <<(<<"d", "app.js">>), File("root/d/app.js")>>,
      <<(<<"forked">>), Dir>>,
      <<(<<"forked", "app.js">>), File("root/forked/app.js")>> }

\* a tree whose root has an index.html, and one whose root has none
FSIndex == Tree(CommonNodes \cup { <<(<<"index.html">>), File("root/index.html")>> })
FSNoIndex == Tree(CommonNodes)
FileSystems == {FSIndex, FSNoIndex}

\* the names of a translated path, as the tree spells them
Key(words) == [i \in 1..Len(words) |-> Str(words[i])]

\* os.path.isdir, os.path.isfile on the words of a translated path
isdir(tree, words) == Key(words) \in DOMAIN tree /\ tree[Key(words)].dir
isfile(tree, words) == Key(words) \in DOMAIN tree /\ ~tree[Key(words)].dir

(***************************************************************************)
(* The response stream: status line, headers, end of headers, body.        *)
(***************************************************************************)
\* url is the value of a Location header as characters, <<>> elsewhere
Ev(t, code, k, v, url) == [t |-> t, code |-> code, k |-> k, v |-> v, url |-> url]
StatusLine(code, msg) == Ev("status", code, "", msg, <<>>)
Header(k, v) == Ev("header", 0, k, v, <<>>)
Location(url) == Ev("header", 0, "Location", Str(url), url)
EndOfHeaders == Ev("end", 0, "", "", <<>>)
Body(b) == Ev("body", 0, "", b, <<>>)

(***************************************************************************)
(* The handler object.  request_path, branch, delegated and reads record   *)
(* what the request did: the path parse_request gave it, the branch of     *)
(* do_GET taken, whether the static-file handler was called, and the       *)
(* local paths it looked up.                                               *)
(***************************************************************************)
NoPath == <<"<unset>">>

NewHandler ==
    [command |-> "", path |-> NoPath, wfile |-> <<>>, request_path |-> NoPath,
     branch |-> "", delegated |-> FALSE, reads |-> {}]

\* BaseHTTPRequestHandler.send_response: status line, Server and Date
send_response(h, code, msg) ==
    [h EXCEPT !.wfile = @ \o << StatusLine(code, msg),
                                Header("Server", "SimpleHTTP"),
                                Header("Date", "now") >>]

\* BaseHTTPRequestHandler.send_header
send_header(h, k, v) == [h EXCEPT !.wfile = Append(@, Header(k, v))]

\* send_header('Location', url)
send_location(h, url) == [h EXCEPT !.wfile = Append(@, Location(url))]

\* BaseHTTPRequestHandler.end_headers: the blank line, headers flushed
base_end_headers(h) == [h EXCEPT !.wfile = Append(@, EndOfHeaders)]

\* variant: the suffix is looked for before the query string
IsNoCachePath_before_query(p) ==
    \E suf \in NoCacheSuffixes : endswith(SplitHead(p, "?"), suf)

\* the test of end_headers on self.path
IsNoCachePath(p) == \E suf \in NoCacheSuffixes : endswith(p, suf)

\* variant: 'Cache-Control: no-cache' is sent whatever the suffix
end_headers_no_else(h) ==
    LET h1 == send_header(h, "Service-Worker-Allowed", "/")
        h2 == IF IsNoCachePath(h.path)
              THEN send_header(send_header(send_header(h1,
                       "Cache-Control", StrictCache),
                       "Pragma", "no-cache"),
                       "Expires", "0")
              ELSE h1
    IN base_end_headers(send_header(h2, "Cache-Control", WeakCache))

\* variant: the headers are completed before the injected ones are added
end_headers_late(h) ==
    LET h1 == send_header(base_end_headers(h), "Service-Worker-Allowed", "/")
    IN IF IsNoCachePath(h.path)
       THEN send_header(send_header(send_header(h1,
                "Cache-Control", StrictCache),
                "Pragma", "no-cache"),
                "Expires", "0")
       ELSE send_header(h1, "Cache-Control", WeakCache)

\* PWAHandler.end_headers
end_headers(h) ==
    LET h1 == send_header(h, "Service-Worker-Allowed", "/")
        h2 == IF IsNoCachePath(h.path)
              THEN send_header(send_header(send_header(h1,
                       "Cache-Control", StrictCache),
                       "Pragma", "no-cache"),
                       "Expires", "0")
              ELSE send_header(h1, "Cache-Control", WeakCache)
    IN base_end_headers(h2)

\* BaseHTTPRequestHandler.send_error, for a code that carries a body
send_error(h, code, msg) ==
    LET h1 == send_response(h, code, msg)
        h2 == send_header(h1, "Connection", "close")
        h3 == send_header(h2, "Content-Type", "text/html;charset=utf-8")
        h4 == send_header(h3, "Content-Length", "len")
        h5 == end_headers(h4)
    IN IF h.command # "HEAD"
       THEN [h5 EXCEPT !.wfile = Append(@, Body(msg))]
       ELSE h5

(***************************************************************************)
(* Path translation of the static-file handler.                            *)
(***************************************************************************)
\* urllib.parse.unquote: %XX becomes the character it encodes
HexChar(a, b) == IF <<a, b>> = <<"6", "4">> THEN "d" ELSE "?"
IsHexPair(a, b) == <<a, b>> = <<"6", "4">>

RECURSIVE unquote(_)
unquote(s) ==
    IF s = <<>> THEN <<>>
    ELSE IF s[1] = "%" /\ Len(s) >= 3 /\ IsHexPair(s[2], s[3])
         THEN <<HexChar(s[2], s[3])>> \o unquote(SliceFrom(s, 3))
         ELSE <<s[1]>> \o unquote(Tail(s))

\* the loop of posixpath.normpath over the components of the path
RECURSIVE NormComps(_, _, _)
NormComps(comps, acc, absolute) ==
    IF comps = <<>> THEN acc
    ELSE LET comp == Head(comps)
             rest == Tail(comps)
         IN IF comp = <<>> \/ comp = <<".">>
            THEN NormComps(rest, acc, absolute)
            ELSE IF comp # <<".", ".">>
                    \/ (~absolute /\ acc = <<>>)
                    \/ (acc # <<>> /\ acc[Len(acc)] = <<".", ".">>)
                 THEN NormComps(rest, Append(acc, comp), absolute)
                 ELSE IF acc # <<>>
                      THEN NormComps(rest, SubSeq(acc, 1, Len(acc) - 1), absolute)
                      ELSE NormComps(rest, acc, absolute)

\* posixpath.normpath, as the list of components of its result
normpath(s) == NormComps(SplitSlash(s), <<>>, startswith(s, <<"/">>))

\* the words translate_path keeps: no empty word, no '.' and no '..'
RECURSIVE SimpleWords(_)
SimpleWords(ws) ==
    IF ws = <<>> THEN <<>>
    ELSE IF Head(ws) \in {<<>>, <<".">>, <<".", ".">>}
         THEN SimpleWords(Tail(ws))
         ELSE <<Head(ws)>> \o SimpleWords(Tail(ws))

\* SimpleHTTPRequestHandler.translate_path: the names below the served
\* root, and whether the path keeps an explicit trailing slash
lib_translate_path(path) ==
    LET p1 == SplitHead(path, "?")
        p2 == SplitHead(p1, "#")
        trailing_slash == endswith(p2, <<"/">>)
    IN [words |-> SimpleWords(normpath(unquote(p2))), slash |-> trailing_slash]

\* PWAHandler.translate_path
translate_path(path) == lib_translate_path(path)

\* urllib.parse.urlsplit of a URL without a scheme
urlsplit(url) ==
    LET hasNetloc == startswith(url, <<"/", "/">>)
        d == IF hasNetloc THEN FindFrom(url, {"/", "?", "#"}, 3) ELSE 0
        netloc == IF ~hasNetloc THEN <<>>
                  ELSE IF d = 0 THEN SliceFrom(url, 2)
                  ELSE SubSeq(url, 3, d - 1)
        r0 == IF ~hasNetloc THEN url
              ELSE IF d = 0 THEN <<>>
              ELSE SliceFrom(url, d - 1)
        f == FindFrom(r0, {"#"}, 1)
        fragment == IF f = 0 THEN <<>> ELSE SliceFrom(r0, f)
        r1 == IF f = 0 THEN r0 ELSE SubSeq(r0, 1, f - 1)
        q == FindFrom(r1, {"?"}, 1)
        query == IF q = 0 THEN <<>> ELSE SliceFrom(r1, q)
        r2 == IF q = 0 THEN r1 ELSE SubSeq(r1, 1, q - 1)
    IN [netloc |-> netloc, path |-> r2, query |-> query, fragment |-> fragment]

\* urllib.parse.urlunsplit with an empty scheme
urlunsplit(netloc, path, query, fragment) ==
    LET u1 == IF netloc # <<>>
              THEN <<"/", "/">> \o netloc
                   \o (IF path # <<>> /\ path[1] # "/" THEN <<"/">> ELSE <<>>)
                   \o path
              ELSE path
        u2 == IF query # <<>> THEN u1 \o <<"?">> \o query ELSE u1
    IN IF fragment # <<>> THEN u2 \o <<"#">> \o fragment ELSE u2

\* SimpleHTTPRequestHandler.guess_type
guess_type(words) ==
    LET name == IF words = <<>> THEN <<>> ELSE words[Len(words)]
    IN IF endswith(name, HTML) \/ endswith(name, HTM) THEN "text/html"
       ELSE IF endswith(name, JS) THEN "text/javascript"
       ELSE IF endswith(name, CSS) THEN "text/css"
       ELSE "application/octet-stream"

(***************************************************************************)
(* The static-file handler.                                                *)
(***************************************************************************)
NoFile == [open |-> FALSE, bytes |-> ""]
OpenFile(b) == [open |-> TRUE, bytes |-> b]

\* SimpleHTTPRequestHandler.list_directory
list_directory(h, words) ==
    LET h1 == send_response(h, 200, "OK")
        h2 == send_header(h1, "Content-type", "text/html; charset=utf-8")
        h3 == send_header(h2, "Content-Length", "len")
    IN [h |-> end_headers(h3), f |-> OpenFile("listing")]

\* the part of send_head that opens and announces a file
send_file_head(h, tree, words, slash) ==
    IF slash \/ ~isfile(tree, words)
    THEN [h |-> send_error(h, 404, "File not found"), f |-> NoFile]
    ELSE LET h1 == send_response(h, 200, "OK")
             h2 == send_header(h1, "Content-type", guess_type(words))
             h3 == send_header(h2, "Content-Length", "len")
             h4 == send_header(h3, "Last-Modified", "mtime")
         IN [h |-> end_headers(h4), f |-> OpenFile(tree[Key(words)].bytes)]

\* SimpleHTTPRequestHandler.send_head
send_head(h, tree) ==
    LET local == translate_path(h.path)
        h0 == [h EXCEPT !.reads = @ \cup {Key(local.words)}]
    IN IF isdir(tree, local.words)
       THEN LET parts == urlsplit(h.path)
            IN IF ~endswith(parts.path, <<"/">>)
               THEN LET new_url == urlunsplit(parts.netloc, parts.path \o <<"/">>,
                                              parts.query, parts.fragment)
                        h1 == send_response(h0, 301, "Moved Permanently")
                        h2 == send_location(h1, new_url)
                        h3 == send_header(h2, "Content-Length", "0")
                    IN [h |-> end_headers(h3), f |-> NoFile]
               ELSE IF isfile(tree, Append(local.words, INDEX_HTML))
                    THEN send_file_head(h0, tree, Append(local.words, INDEX_HTML), FALSE)
                    ELSE IF isfile(tree, Append(local.words, INDEX_HTM))
                         THEN send_file_head(h0, tree, Append(local.words, INDEX_HTM), FALSE)
                         ELSE list_directory(h0, local.words)
       ELSE send_file_head(h0, tree, local.words, local.slash)

\* SimpleHTTPRequestHandler.do_GET: send_head, then copy the file
lib_do_GET(h, tree) ==
    LET r == send_head([h EXCEPT !.delegated = TRUE], tree)
    IN IF r.f.open
       THEN [r.h EXCEPT !.wfile = Append(@, Body(r.f.bytes))]
       ELSE r.h

\* SimpleHTTPRequestHandler.do_HEAD: send_head, the file is only closed
do_HEAD(h, tree) == send_head([h EXCEPT !.delegated = TRUE], tree).h

(***************************************************************************)
(* PWAHandler.do_GET.                                                      *)
(***************************************************************************)
\* variant: only '/' is a root request
IsRootRequest_slash_only(p) == p = ROOT

\* self.path == '/' or self.path == ''
IsRootRequest(p) == p = ROOT \/ p = EMPTY

\* variant: the prefix is tested without its trailing slash
HasForkedPrefix_no_slash(p) == startswith(p, FORKED)

\* self.path.startswith('/forked/')
HasForkedPrefix(p) == startswith(p, FORKED_SLASH)

\* variant: the slash after the prefix is removed with it
StripPrefix_with_slash(p) == SliceFrom(p, PrefixLen + 1)

\* variant: the path is left as it came
StripPrefix_keep(p) == p

\* self.path[7:]
StripPrefix(p) == SliceFrom(p, PrefixLen)

do_GET(h, tree) ==
    IF IsRootRequest(h.path)
    THEN LET h1 == send_response([h EXCEPT !.branch = "redirect"], 301, "Moved Permanently")
             h2 == send_location(h1, RedirectTarget)
         IN end_headers(h2)
    ELSE IF HasForkedPrefix(h.path)
         THEN LET stripped == StripPrefix(h.path)
              IN IF stripped = EMPTY
                 THEN lib_do_GET([h EXCEPT !.path = ROOT, !.branch = "strip-empty"], tree)
                 ELSE lib_do_GET([h EXCEPT !.path = stripped, !.branch = "strip"], tree)
         ELSE IF h.path = FORKED
              THEN lib_do_GET([h EXCEPT !.path = ROOT, !.branch = "exact"], tree)
              ELSE send_error([h EXCEPT !.branch = "reject"], 404, OnlyForkedMsg)

(***************************************************************************)
(* BaseHTTPRequestHandler: one request on a handler.                       *)
(***************************************************************************)
\* str.lstrip('/')
RECURSIVE lstrip_slash(_)
lstrip_slash(s) ==
    IF s # <<>> /\ s[1] = "/" THEN lstrip_slash(Tail(s)) ELSE s

\* variant: a path the handler already has is kept
parse_request_keep(h, cmd, p) ==
    LET path == IF startswith(p, <<"/", "/">>)
                THEN <<"/">> \o lstrip_slash(p)
                ELSE p
    IN [h EXCEPT !.command = cmd,
                 !.path = IF h.path = NoPath THEN path ELSE h.path,
                 !.request_path = path]

\* parse_request: self.command and self.path are set from the request line
parse_request(h, cmd, p) ==
    LET path == IF startswith(p, <<"/", "/">>)
                THEN <<"/">> \o lstrip_slash(p)
                ELSE p
    IN [h EXCEPT !.command = cmd, !.path = path, !.request_path = path]

\* variant: do_HEAD is do_GET
handle_one_request_head_as_get(h, cmd, p, tree) ==
    LET h1 == parse_request(h, cmd, p)
    IN IF cmd \in {"GET", "HEAD"} THEN do_GET(h1, tree)
       ELSE send_error(h1, 501, "Unsupported method")

\* handle_one_request: parse, then dispatch on do_<command>
handle_one_request(h, cmd, p, tree) ==
    LET h1 == parse_request(h, cmd, p)
    IN IF cmd = "GET" THEN do_GET(h1, tree)
       ELSE IF cmd = "HEAD" THEN do_HEAD(h1, tree)
       ELSE send_error(h1, 501, "Unsupported method")

(***************************************************************************)
(* The server.  Each connection gets a new handler (TCPServer constructs   *)
(* PWAHandler per connection) and carries one request.  The client's       *)
(* request path is a prefix followed by up to MaxTok tokens.               *)
(***************************************************************************)
Prefixes == {EMPTY, ROOT, FORKED, FORKED_SLASH}

Tokens ==
    { <<"/">>,
      <<"d">>,
      <<"x">>,
      <<"a", "p", "p", ".", "j", "s">>,
      <<"s", ".", "c", "s", "s">>,
      INDEX_HTML,
      <<"?">>,
      <<"#">>,
      <<".", ".">>,
      <<"%", "6", "4">> }

\* the request paths sent on a reused handler (SpecKeepAlive)
KATokens == { <<"/">>, <<"a", "p", "p", ".", "j", "s">>, <<"?">> }

RECURSIVE KATails(_)
KATails(n) ==
    IF n = 0 THEN {<<>>}
    ELSE KATails(n - 1) \cup {t \o tok : t \in KATails(n - 1), tok \in KATokens}

KAPaths == {pre \o t : pre \in Prefixes, t \in KATails(MaxTokKA)}

Commands == {"GET", "HEAD", "POST"}

\* hops: redirects the client followed to arrive at the current request
\* prior: the branch of do_GET the previous request on this handler took
VARIABLES fs, conn, raw, ntok, handler, hops, prior

vars == <<fs, conn, raw, ntok, handler, hops, prior>>

\* the first status line of a response, the values of a header
Status(w) == IF w # <<>> /\ w[1].t = "status" THEN w[1].code ELSE 0
StatusMsg(w) == IF w # <<>> /\ w[1].t = "status" THEN w[1].v ELSE ""
At(w, k) == {i \in 1..Len(w) : w[i].t = "header" /\ w[i].k = k}
Values(w, k) == {w[i].v : i \in At(w, k)}
Bodies(w) == {w[i].v : i \in {j \in 1..Len(w) : w[j].t = "body"}}

\* the path a URL is inside the served prefix
InPrefix(p) == p = ROOT \/ p = FORKED \/ startswith(p, FORKED_SLASH)

Init ==
    /\ fs \in FileSystems
    /\ conn = "idle"
    /\ raw = <<>>
    /\ ntok = 0
    /\ handler = NewHandler
    /\ hops = 0
    /\ prior = ""

\* a client connects and starts its request line; the server constructs a
\* handler for the connection
Connect(prefix) ==
    /\ conn # "open"
    /\ conn' = "open"
    /\ raw' = prefix
    /\ ntok' = 0
    /\ handler' = NewHandler
    /\ hops' = 0
    /\ UNCHANGED <<fs, prior>>

\* the client writes more of the request path
ClientWrite(tok) ==
    /\ conn = "open"
    /\ hops = 0
    /\ ntok < MaxTok
    /\ raw' = raw \o tok
    /\ ntok' = ntok + 1
    /\ UNCHANGED <<fs, conn, handler, hops, prior>>

\* the request line is complete: the handler serves it and the connection
\* is closed
Serve(cmd) ==
    /\ conn = "open"
    /\ hops > 0 => cmd = "GET"
    /\ handler' = handle_one_request(handler, cmd, raw, fs)
    /\ conn' = "closed"
    /\ UNCHANGED <<fs, raw, ntok, hops, prior>>

GET == Serve("GET")
HEAD == Serve("HEAD")
POST == Serve("POST")

\* a client that started inside the prefix follows the redirect it got:
\* it connects again and asks for the Location with GET
Follow ==
    /\ conn = "closed"
    /\ handler.command = "GET"
    /\ Status(handler.wfile) = 301
    /\ hops = 0 => InPrefix(raw)
    /\ \E i \in At(handler.wfile, "Location") :
          raw' = handler.wfile[i].url
    /\ conn' = "open"
    /\ ntok' = 0
    /\ handler' = NewHandler
    /\ hops' = hops + 1
    /\ UNCHANGED <<fs, prior>>

Next ==
    \/ \E prefix \in Prefixes : Connect(prefix)
    \/ \E tok \in Tokens : ClientWrite(tok)
    \/ GET
    \/ HEAD
    \/ POST
    \/ Follow

Spec == Init /\ [][Next]_vars

(***************************************************************************)
(* The same handler serving request after request, each with the           *)
(* attributes the previous request left on it.  PWAHandler is constructed  *)
(* per connection and closes it after one request, so this is more reuse   *)
(* than the server performs; a response that is the same here is the same  *)
(* there.                                                                  *)
(***************************************************************************)
ServeNext(cmd, p) ==
    /\ handler' = handle_one_request(
                      [handler EXCEPT !.wfile = <<>>, !.branch = "",
                                      !.delegated = FALSE, !.reads = {}],
                      cmd, p, fs)
    /\ prior' = handler.branch
    /\ raw' = p
    /\ conn' = "closed"
    /\ UNCHANGED <<fs, ntok, hops>>

NextKeepAlive == \E cmd \in Commands, p \in KAPaths : ServeNext(cmd, p)

SpecKeepAlive == Init /\ [][NextKeepAlive]_vars

TypeOK ==
    /\ fs \in FileSystems
    /\ conn \in {"idle", "open", "closed"}
    /\ ntok \in 0..MaxTok

(***************************************************************************)
(* Properties.  Req is the request path as parse_request gave it to the    *)
(* handler, W the response.                                                *)
(***************************************************************************)
Done == conn = "closed"
Req == handler.request_path
W == handler.wfile
IsGet == handler.command = "GET"
IsHead == handler.command = "HEAD"

Once(w, k) == Cardinality(At(w, k)) = 1

\* p ends with '.js', '.html' or '.css'
HasDevSuffix(p) ==
    LET n == Len(p)
    IN \/ n >= 3 /\ SubSeq(p, n - 2, n) = <<".", "j", "s">>
       \/ n >= 5 /\ SubSeq(p, n - 4, n) = <<".", "h", "t", "m", "l">>
       \/ n >= 4 /\ SubSeq(p, n - 3, n) = <<".", "c", "s", "s">>

\* the strict triplet and nothing weaker; the weak header and nothing else
StrictOnly(w) ==
    /\ Once(w, "Cache-Control") /\ Values(w, "Cache-Control") = {StrictCache}
    /\ Once(w, "Pragma") /\ Values(w, "Pragma") = {"no-cache"}
    /\ Once(w, "Expires") /\ Values(w, "Expires") = {"0"}
WeakOnly(w) ==
    /\ Once(w, "Cache-Control") /\ Values(w, "Cache-Control") = {"no-cache"}
    /\ At(w, "Pragma") = {}
    /\ At(w, "Expires") = {}

\* p is '/forked' followed by a slash and anything
UnderForked(p) ==
    Len(p) >= 8 /\ SubSeq(p, 1, 8) = <<"/", "f", "o", "r", "k", "e", "d", "/">>
ExactlyForked(p) == p = <<"/", "f", "o", "r", "k", "e", "d">>

\* p is outside the prefix and is not a root request
Outside(p) ==
    /\ p # <<>>
    /\ p # <<"/">>
    /\ ~ExactlyForked(p)
    /\ ~UnderForked(p)

\* the path the spec says is handed on for a request path inside the prefix
Rewritten(p) == IF ExactlyForked(p) THEN <<"/">> ELSE SubSeq(p, 8, Len(p))

\* the custom 404 of do_GET
IsCustom404(w) ==
    /\ Status(w) = 404
    /\ StatusMsg(w) = "Only /forked/ path is served"

\* what the served root answers with: its index.html, or its listing
RootBody(tree) ==
    IF <<"index.html">> \in DOMAIN tree THEN tree[<<"index.html">>].bytes
    ELSE "listing"

\* C1: a GET for '/' or '' is answered 301 with Location: /forked/, without
\* a body, without the static-file handler and without a filesystem lookup
C1_RootRedirect ==
    (Done /\ IsGet /\ Req \in {<<"/">>, <<>>}) =>
        /\ Status(W) = 301
        /\ Once(W, "Location")
        /\ Values(W, "Location") = {"/forked/"}
        /\ Bodies(W) = {}
        /\ ~handler.delegated
        /\ handler.reads = {}

C1_Witness ==
    /\ Done /\ IsGet /\ Req = <<>>
    /\ Status(W) = 301
    /\ Values(W, "Location") = {"/forked/"}

\* C2: a GET for a path that is not '', '/', '/forked' and does not start
\* with '/forked/' is answered with the custom 404 and reads no file
C2_OutsideRejected ==
    (Done /\ IsGet /\ Outside(Req)) =>
        /\ IsCustom404(W)
        /\ Bodies(W) = {"Only /forked/ path is served"}
        /\ ~handler.delegated
        /\ handler.reads = {}

C2_Witness ==
    /\ Done /\ IsGet
    /\ Req = <<"/", "f", "o", "r", "k", "e", "d", "?">>
    /\ IsCustom404(W)

\* C3: for a GET path starting with '/forked/' the path handed on is the
\* request path without its first 7 characters, non-empty and starting
\* with '/', and the empty-result fallback is not taken; for '/forked' it
\* is '/'; both '/forked' and '/forked/' are served as the root, no redirect
C3_EffectivePath ==
    (Done /\ IsGet) =>
        /\ UnderForked(Req) =>
              /\ handler.path = SubSeq(Req, 8, Len(Req))
              /\ handler.path # <<>>
              /\ handler.path[1] = "/"
              /\ handler.branch = "strip"
              /\ handler.delegated
        /\ ExactlyForked(Req) =>
              /\ handler.path = <<"/">>
              /\ handler.branch = "exact"
              /\ handler.delegated
        /\ (ExactlyForked(Req) \/ Req = <<"/", "f", "o", "r", "k", "e", "d", "/">>) =>
              /\ handler.path = <<"/">>
              /\ handler.reads = {<<>>}
              /\ Status(W) = 200
              /\ At(W, "Location") = {}
              /\ Bodies(W) = {RootBody(fs)}

C3_Witness ==
    /\ Done /\ IsGet
    /\ Req = <<"/", "f", "o", "r", "k", "e", "d", "/">>
    /\ handler.path = <<"/">>
    /\ handler.branch = "strip"
    /\ Status(W) = 200

C5_CacheByRewrittenPath ==
    (Done /\ IsGet /\ (ExactlyForked(Req) \/ UnderForked(Req))) =>
        /\ Once(W, "Cache-Control")
        /\ IF HasDevSuffix(Rewritten(Req)) THEN StrictOnly(W) ELSE WeakOnly(W)

C5_Witness ==
    /\ Done /\ IsGet /\ UnderForked(Req)
    /\ Status(W) = 404
    /\ HasDevSuffix(Rewritten(Req))
    /\ StrictOnly(W)

\* C6: every response carries Service-Worker-Allowed: / exactly once, after
\* the status line and the headers of its branch and before the end of the
\* headers
Injected == {"Service-Worker-Allowed", "Cache-Control", "Pragma", "Expires"}

C6_ServiceWorkerAllowed ==
    Done =>
        /\ W # <<>>
        /\ Once(W, "Service-Worker-Allowed")
        /\ Values(W, "Service-Worker-Allowed") = {"/"}
        /\ \A i \in At(W, "Service-Worker-Allowed") :
              \A j \in 1..Len(W) :
                 /\ W[j].t = "status" => j < i
                 /\ (W[j].t = "header" /\ W[j].k \notin Injected) => j < i
                 /\ W[j].t = "end" => i < j
        /\ Cardinality({j \in 1..Len(W) : W[j].t = "end"}) = 1

C6_Witness ==
    /\ Done /\ IsGet
    /\ handler.delegated
    /\ Status(W) = 301
    /\ Once(W, "Service-Worker-Allowed")

PlainNames(p) ==
    /\ \A i \in 1..Len(p) : p[i] \notin {"?", "#", "%"}
    /\ \A c \in {SplitSlash(p)[i] : i \in 1..Len(SplitSlash(p))} :
          c \notin {<<>>, <<".">>, <<".", ".">>}

\* C8: a HEAD request keeps its request path: 'HEAD /' is not redirected
\* to /forked/, 'HEAD /forked/<p>' is looked up at forked/<p> under the
\* root, a path outside the prefix does not get the custom 404, and the
\* injected headers are still added
C8_HeadUnmodified ==
    (Done /\ IsHead) =>
        /\ handler.path = Req
        /\ handler.branch = ""
        /\ Bodies(W) = {}
        /\ Req = <<"/">> =>
              /\ Status(W) = 200
              /\ At(W, "Location") = {}
              /\ handler.reads = {<<>>}
        /\ (UnderForked(Req) /\ PlainNames(SubSeq(Req, 9, Len(Req)))) =>
              handler.reads = {<<"forked">> \o Key(SplitSlash(SubSeq(Req, 9, Len(Req))))}
        /\ Outside(Req) => ~IsCustom404(W)
        /\ Once(W, "Service-Worker-Allowed")
        /\ IF HasDevSuffix(Req) THEN StrictOnly(W) ELSE WeakOnly(W)

C8_Witness ==
    /\ Done /\ IsHead
    /\ Req = <<"/", "f", "o", "r", "k", "e", "d", "/", "a", "p", "p", ".", "j", "s">>
    /\ handler.reads = {<<"forked", "app.js">>}
    /\ Status(W) = 200
    /\ StrictOnly(W)

\* C9: every 301 answered to a GET has a Location that is '/forked/' or
\* starts with it, and a client that starts at '/' or inside the prefix
\* and follows redirects never gets the custom 404
C9_RedirectsStayInside ==
    (Done /\ IsGet) =>
        /\ Status(W) = 301 =>
              \A i \in At(W, "Location") : UnderForked(W[i].url)
        /\ hops > 0 => ~IsCustom404(W)

\* C10: strict or weak cache headers follow the suffix of the handler's
\* current path string, not the file sent: '/forked' and '/forked/' get the
\* weak header, and a rejected GET is judged on its unrewritten path
C10_CacheBySuffixOfPath ==
    Done =>
        /\ IF HasDevSuffix(handler.path) THEN StrictOnly(W) ELSE WeakOnly(W)
        /\ (IsGet /\ (ExactlyForked(Req) \/ Req = <<"/", "f", "o", "r", "k", "e", "d", "/">>)) =>
              WeakOnly(W)
        /\ (IsGet /\ Outside(Req)) =>
              /\ handler.path = Req
              /\ HasDevSuffix(Req) => (IsCustom404(W) /\ StrictOnly(W))

C10_Witness ==
    /\ Done /\ IsGet
    /\ Req = <<"/", "f", "o", "r", "k", "e", "d", "/", "a", "p", "p", ".", "j", "s", "?">>
    /\ Status(W) = 200
    /\ Bodies(W) = {"root/app.js"}
    /\ WeakOnly(W)

====
